---------------------------- MODULE Spec2Model ----------------------------
(***************************************************************************)
(* A model of the timm adapter classes of optimum-intel                    *)
(* (src/optimum/intel/openvino/modeling_timm.py) and of the placeholder    *)
(* classes of src/optimum/intel/utils/dummy_openvino_and_diffusers_        *)
(* objects.py.                                                             *)
(*                                                                         *)
(* The module holds four independent components over one set of variables: *)
(*   - the config translator       TimmConfig.from_pretrained   (SpecConfig)*)
(*   - the classification forward  TimmForImageClassification   (SpecSeq,  *)
(*     and the model constructors                     SpecConc, SpecLife)  *)
(*   - the preprocessing pipeline  TimmImageProcessor           (SpecPre)  *)
(*   - the placeholder classes     OVStableDiffusion*Pipeline   (SpecDummy)*)
(* Each specification lets one component run and parks the others.         *)
(*                                                                         *)
(* Python values: an optional value is a sequence, <<>> for None and <<v>>  *)
(* for v; a dict is a function whose domain is its set of keys.            *)
(***************************************************************************)
EXTENDS Integers, Sequences, FiniteSets, TLC

VARIABLES
    cfg_call,       \* the arguments of the TimmConfig.from_pretrained call
    cfg_out,        \* what that call did: an exception, or the cls.from_dict call
    config,         \* the TimmConfig object shared by the forward calls
    pc,             \* per caller: its position in TimmForImageClassification.forward
    fr,             \* per caller: the locals of its current (or last) forward call
    pt_writer,      \* history: the caller whose forward last wrote config.problem_type
    proc,           \* the TimmImageProcessor instance: the attributes __init__ sets
    pre_call,       \* the arguments of the preprocess call in progress (None: no call)
    pre_out,        \* what that call did: locals resolved, images at exit, error, data
    available,      \* the optional dependencies installed, of "openvino" and "diffusers"
    dummy_calls,    \* the calls made on the placeholder classes, with their outcomes
    model           \* the model last constructed on config (None: none yet)

None == <<>>
Some(v) == <<v>>
IsNone(x) == Len(x) = 0
Val(x) == x[1]

EmptyDict == <<>>
\* dict.pop(k) without default, on a dict that has k: the dict without k
DictPop(d, k) == [x \in DOMAIN d \ {k} |-> d[x]]
\* d[k] = v
DictSet(d, k, v) == (k :> v) @@ d
\* seq[-1]
LastOf(s) == s[Len(s)]

(***************************************************************************)
(* Config translator                                                       *)
(***************************************************************************)

\* Bounds of the registry configs tried
MaxClasses == 2
MaxDim == 2

\* The mappings load_model_config_from_hf may return: whatever the hub's
\* config.json holds. num_classes and input_size may be missing, and a field
\* may already be named num_labels or image_size.
RegistryOptional ==
    { EmptyDict,
      "architecture" :> "resnet",
      "num_labels" :> 7,
      "image_size" :> 9,
      ("num_labels" :> 7) @@ ("image_size" :> 9) }

RegistryConfigs ==
    { (("hf_hub_id" :> "timm/m") @@ req @@ opt) :
        req \in ( { ("num_classes" :> n) @@ ("input_size" :> <<3, h, w>>) :
                        n \in 1..MaxClasses, h \in 1..MaxDim, w \in 1..MaxDim }
                  \cup { "num_classes" :> 1, "input_size" :> <<3, 1, 2>>, EmptyDict } ),
        opt \in RegistryOptional }

CallerKwargs == { EmptyDict, "trust_remote_code" :> TRUE }

ConfigArgs ==
    [ registry : RegistryConfigs,
      cache_dir : {None, Some("/cache")},
      force_download : BOOLEAN,
      local_files_only : BOOLEAN,
      token : {None, Some("hf_tok")},
      revision : {"main", "v1"},
      kwargs : CallerKwargs ]

\* lines 55-58: the overrides written into kwargs
ConfigKwargs(a) ==
    DictSet(DictSet(DictSet(DictSet(a.kwargs,
        "cache_dir", a.cache_dir),
        "force_download", a.force_download),
        "local_files_only", a.local_files_only),
        "revision", a.revision)

\* line 61: config_dict["num_labels"] = config_dict.pop("num_classes")
RenameNumClasses(d) ==
    DictSet(DictPop(d, "num_classes"), "num_labels", d["num_classes"])

\* A slip: the height, input_size[1], taken for the image size
DeriveImageSize_height(d) ==
    DictSet(d, "image_size", d["input_size"][2])

\* line 62: config_dict["image_size"] = config_dict.get("input_size")[-1]
DeriveImageSize(d) ==
    DictSet(d, "image_size", LastOf(d["input_size"]))

\* TimmConfig.from_pretrained, lines 44-64. The result is the exception raised
\* (pop of a missing key: KeyError; None[-1]: TypeError) or the arguments of the
\* closing cls.from_dict(config_dict, **kwargs).
TimmConfig_from_pretrained(a) ==
    LET kw == ConfigKwargs(a)
        d0 == a.registry
    IN IF "num_classes" \notin DOMAIN d0
       THEN [raised |-> "KeyError", config_dict |-> EmptyDict, kwargs |-> EmptyDict]
       ELSE LET d1 == RenameNumClasses(d0)
            IN IF "input_size" \notin DOMAIN d1
               THEN [raised |-> "TypeError", config_dict |-> EmptyDict, kwargs |-> EmptyDict]
               ELSE [raised |-> "none", config_dict |-> DeriveImageSize(d1), kwargs |-> kw]

NotCalled == [raised |-> "not_called", config_dict |-> EmptyDict, kwargs |-> EmptyDict]

ConfigFromPretrained ==
    /\ cfg_out.raised = "not_called"
    /\ cfg_out' = TimmConfig_from_pretrained(cfg_call)
    /\ UNCHANGED cfg_call
    /\ UNCHANGED <<config, pc, fr, pt_writer, proc, pre_call, pre_out, available, dummy_calls, model>>

\* The call returned the cls.from_dict call (no exception)
CfgTranslated == cfg_out.raised = "none"
\* The registry mapping has num_classes and input_size = [C, H, W]
CfgValidRegistry ==
    /\ "num_classes" \in DOMAIN cfg_call.registry
    /\ "input_size" \in DOMAIN cfg_call.registry
    /\ Len(cfg_call.registry["input_size"]) = 3

CfgDerived(reg, d) ==
    /\ d["image_size"] = reg["input_size"][3]
    /\ d["num_labels"] = reg["num_classes"]
    /\ "num_classes" \notin DOMAIN d

\* C1 as stated: for every registry mapping with num_classes and input_size =
\* [C, H, W] the translated config has image_size = W, num_labels = num_classes,
\* no key num_classes, and EVERY other registry field with its value unchanged.
C1_AllOtherFieldsUnchanged ==
    (cfg_out.raised # "not_called" /\ CfgValidRegistry) =>
        /\ CfgTranslated
        /\ CfgDerived(cfg_call.registry, cfg_out.config_dict)
        /\ \A k \in DOMAIN cfg_call.registry \ {"num_classes"} :
              /\ k \in DOMAIN cfg_out.config_dict
              /\ cfg_out.config_dict[k] = cfg_call.registry[k]

\* C1 amended: as C1, but a registry field that is itself named num_labels or
\* image_size is overwritten by the derived value; every registry field other
\* than num_classes, num_labels and image_size keeps its value.
C1_TranslatedConfig ==
    (cfg_out.raised # "not_called" /\ CfgValidRegistry) =>
        /\ CfgTranslated
        /\ CfgDerived(cfg_call.registry, cfg_out.config_dict)
        /\ \A k \in DOMAIN cfg_call.registry \ {"num_classes", "num_labels", "image_size"} :
              /\ k \in DOMAIN cfg_out.config_dict
              /\ cfg_out.config_dict[k] = cfg_call.registry[k]

\* A translated config whose registry had other fields, one of them already
\* named image_size, and a height different from the width
C1_Witness ==
    /\ CfgTranslated
    /\ {"architecture", "hf_hub_id", "input_size"} \subseteq DOMAIN cfg_out.config_dict
    /\ cfg_call.registry["input_size"][2] # cfg_call.registry["input_size"][3]

\* C7 as stated: the cache directory, the force-download flag, the offline-only
\* flag, the auth token and the revision the caller gave are all in the keyword
\* arguments the config is built from; none of the five is dropped.
C7_AllOverridesMerged ==
    CfgTranslated =>
        /\ cfg_out.kwargs["cache_dir"] = cfg_call.cache_dir
        /\ cfg_out.kwargs["force_download"] = cfg_call.force_download
        /\ cfg_out.kwargs["local_files_only"] = cfg_call.local_files_only
        /\ cfg_out.kwargs["revision"] = cfg_call.revision
        /\ ~IsNone(cfg_call.token) =>
              /\ "token" \in DOMAIN cfg_out.kwargs
              /\ cfg_out.kwargs["token"] = cfg_call.token


(***************************************************************************)
(* Model wrapper and loss selector                                         *)
(***************************************************************************)

\* Largest num_labels tried (0 .. MaxNumLabels)
MaxNumLabels == 2

\* The callers of forward on one model: two, so that two calls can overlap
Threads == {"t1", "t2"}

ProblemTypes == {"regression", "single_label_classification", "multi_label_classification"}

\* torch dtypes of a labels tensor: int64, int32, int16, float32
LabelDtypes == {"long", "int", "short", "float"}

Configs ==
    [ hf_hub_id : {"timm/m"},
      image_size : {224},
      num_labels : 0..MaxNumLabels,
      use_return_dict : BOOLEAN,
      problem_type : {None} \cup {Some(p) : p \in ProblemTypes} ]

\* A slip: only torch.long counts as an integer label dtype
InferProblemType_long_only(num_labels, dtype) ==
    IF num_labels = 1 THEN "regression"
    ELSE IF num_labels > 1 /\ dtype = "long" THEN "single_label_classification"
    ELSE "multi_label_classification"

\* lines 169-174: the problem type inferred from num_labels and labels.dtype
InferProblemType(num_labels, dtype) ==
    IF num_labels = 1 THEN "regression"
    ELSE IF num_labels > 1 /\ (dtype = "long" \/ dtype = "int")
         THEN "single_label_classification"
    ELSE "multi_label_classification"

\* A slip: the regression branch builds the cross-entropy loss
RegressionLoss_ce(num_labels) == "CrossEntropyLoss"

\* lines 177-181: the loss of the regression branch
RegressionLoss(num_labels) ==
    IF num_labels = 1 THEN "MSELoss_squeezed" ELSE "MSELoss"

\* TimmModel.forward, lines 105-129: the exception raised, or what is returned:
\* the backbone's tensor, or a BaseModelOutput holding it
TimmModel_forward(pixel_values, return_dict) ==
    IF ~pixel_values THEN "ValueError"
    ELSE IF ~return_dict THEN "tensor"
    ELSE "BaseModelOutput"

NoResult == [kind |-> "none", loss |-> "none"]

IdleFrame ==
    [ labels |-> None, return_dict |-> FALSE, logits |-> "none", loss |-> "none",
      inferred |-> None, result |-> NoResult ]

\* lines 157-162: return_dict is resolved against config.use_return_dict and the
\* wrapped TimmModel is called; its ValueError (no pixel_values) ends the call.
ForwardCall(t) ==
    /\ pc[t] = "idle"
    /\ \E pixel_values \in BOOLEAN,
          labels \in {None} \cup {Some(d) : d \in LabelDtypes},
          return_dict \in {None, Some(TRUE), Some(FALSE)} :
        LET rd == IF ~IsNone(return_dict) THEN Val(return_dict) ELSE config.use_return_dict
            out == TimmModel_forward(pixel_values, rd)
        IN IF out = "ValueError"
           THEN /\ fr' = [fr EXCEPT ![t] = [IdleFrame EXCEPT
                            !.labels = labels, !.return_dict = rd,
                            !.result = [kind |-> "ValueError", loss |-> "none"]]]
                /\ pc' = pc
           ELSE /\ fr' = [fr EXCEPT ![t] = [IdleFrame EXCEPT
                            !.labels = labels, !.return_dict = rd, !.logits = out]]
                /\ pc' = [pc EXCEPT ![t] = "labels"]
    /\ UNCHANGED <<config, pt_writer>>
    /\ UNCHANGED <<cfg_call, cfg_out, proc, pre_call, pre_out, available, dummy_calls, model>>

\* A slip: the problem type is inferred from the labels of every call, whether
\* or not the config already holds one
ForwardCheck_always_infer(t) ==
    /\ pc[t] = "labels"
    /\ IF IsNone(fr[t].labels)
       THEN pc' = [pc EXCEPT ![t] = "return"] /\ fr' = fr
       ELSE \/ /\ fr[t].logits = "BaseModelOutput"
               /\ fr' = [fr EXCEPT ![t].result = [kind |-> "AttributeError", loss |-> "none"]]
               /\ pc' = [pc EXCEPT ![t] = "idle"]
            \/ /\ pc' = [pc EXCEPT ![t] = "infer"]
               /\ fr' = fr
    /\ UNCHANGED <<config, pt_writer>>
    /\ UNCHANGED <<cfg_call, cfg_out, proc, pre_call, pre_out, available, dummy_calls, model>>

\* lines 164-168: without labels no loss is computed. With labels, line 167 reads
\* logits.device: logits is a tensor when return_dict is false and the
\* BaseModelOutput of TimmModel.forward otherwise, on which the tensor runtime
\* decides whether the attribute read (and the loss on it) raises; both outcomes
\* are kept. Then config.problem_type is checked.
ForwardCheck(t) ==
    /\ pc[t] = "labels"
    /\ IF IsNone(fr[t].labels)
       THEN pc' = [pc EXCEPT ![t] = "return"] /\ fr' = fr
       ELSE \/ /\ fr[t].logits = "BaseModelOutput"
               /\ fr' = [fr EXCEPT ![t].result = [kind |-> "AttributeError", loss |-> "none"]]
               /\ pc' = [pc EXCEPT ![t] = "idle"]
            \/ /\ pc' = [pc EXCEPT ![t] = IF IsNone(config.problem_type)
                                         THEN "infer" ELSE "is_regression"]
               /\ fr' = fr
    /\ UNCHANGED <<config, pt_writer>>
    /\ UNCHANGED <<cfg_call, cfg_out, proc, pre_call, pre_out, available, dummy_calls, model>>

\* lines 169-174: the inferred problem type is written onto the shared config
ForwardInfer(t) ==
    /\ pc[t] = "infer"
    /\ LET p == InferProblemType(config.num_labels, Val(fr[t].labels))
       IN /\ config' = [config EXCEPT !.problem_type = Some(p)]
          /\ fr' = [fr EXCEPT ![t].inferred = Some(p)]
    /\ pt_writer' = t
    /\ pc' = [pc EXCEPT ![t] = "is_regression"]
    /\ UNCHANGED <<cfg_call, cfg_out, proc, pre_call, pre_out, available, dummy_calls, model>>

\* lines 176-181: first read of config.problem_type
ForwardRegression(t) ==
    /\ pc[t] = "is_regression"
    /\ IF config.problem_type = Some("regression")
       THEN /\ fr' = [fr EXCEPT ![t].loss = RegressionLoss(config.num_labels)]
            /\ pc' = [pc EXCEPT ![t] = "return"]
       ELSE /\ fr' = fr
            /\ pc' = [pc EXCEPT ![t] = "is_single_label"]
    /\ UNCHANGED <<config, pt_writer>>
    /\ UNCHANGED <<cfg_call, cfg_out, proc, pre_call, pre_out, available, dummy_calls, model>>

\* lines 182-184: second read of config.problem_type
ForwardSingleLabel(t) ==
    /\ pc[t] = "is_single_label"
    /\ IF config.problem_type = Some("single_label_classification")
       THEN /\ fr' = [fr EXCEPT ![t].loss = "CrossEntropyLoss"]
            /\ pc' = [pc EXCEPT ![t] = "return"]
       ELSE /\ fr' = fr
            /\ pc' = [pc EXCEPT ![t] = "is_multi_label"]
    /\ UNCHANGED <<config, pt_writer>>
    /\ UNCHANGED <<cfg_call, cfg_out, proc, pre_call, pre_out, available, dummy_calls, model>>

\* lines 185-187: third read of config.problem_type
ForwardMultiLabel(t) ==
    /\ pc[t] = "is_multi_label"
    /\ IF config.problem_type = Some("multi_label_classification")
       THEN fr' = [fr EXCEPT ![t].loss = "BCEWithLogitsLoss"]
       ELSE fr' = fr
    /\ pc' = [pc EXCEPT ![t] = "return"]
    /\ UNCHANGED <<config, pt_writer>>
    /\ UNCHANGED <<cfg_call, cfg_out, proc, pre_call, pre_out, available, dummy_calls, model>>

\* lines 189-195: without return_dict the logits alone are returned; otherwise an
\* ImageClassifierOutput holding loss and logits
ForwardReturn(t) ==
    /\ pc[t] = "return"
    /\ fr' = [fr EXCEPT ![t].result =
                IF ~fr[t].return_dict
                THEN [kind |-> "logits", loss |-> "none"]
                ELSE [kind |-> "ImageClassifierOutput", loss |-> fr[t].loss]]
    /\ pc' = [pc EXCEPT ![t] = "idle"]
    /\ UNCHANGED <<config, pt_writer>>
    /\ UNCHANGED <<cfg_call, cfg_out, proc, pre_call, pre_out, available, dummy_calls, model>>

\* The model object a constructor leaves: its class and the num_classes its timm
\* network was created with (lines 88-96)
ModelOf(class, num_classes) == [class |-> class, num_classes |-> num_classes]

\* The TimmModel a classifier wraps is created with feature_only = False
ClassifierOn(cfg) == ModelOf("TimmForImageClassification", cfg.num_labels)

\* The num_labels arguments tried: unset, 0 (falsy) and the positive counts
NumLabelsArgs == {None} \cup {Some(n) : n \in 0..MaxNumLabels}

\* line 136: "if num_labels:" holds for a value that is set and not 0
Truthy(num_labels) == ~IsNone(num_labels) /\ Val(num_labels) # 0

\* TimmForImageClassification.__init__, lines 136-137: the config as the
\* constructor leaves it
ClassifierConfig(cfg, num_labels) ==
    IF Truthy(num_labels) THEN [cfg EXCEPT !.num_labels = Val(num_labels)] ELSE cfg

\* TimmModel.__init__, lines 79-98: self.config = config and the timm network,
\* with no classes when feature_only
TimmModel_init ==
    /\ \A t \in Threads : pc[t] = "idle"
    /\ \E feature_only \in BOOLEAN :
         model' = Some(ModelOf("TimmModel", IF feature_only THEN 0 ELSE config.num_labels))
    /\ UNCHANGED <<config, pc, fr, pt_writer>>
    /\ UNCHANGED <<cfg_call, cfg_out, proc, pre_call, pre_out, available, dummy_calls>>

\* TimmForImageClassification.__init__, lines 133-138
TimmForImageClassification_init ==
    /\ \A t \in Threads : pc[t] = "idle"
    /\ \E num_labels \in NumLabelsArgs :
         /\ config' = ClassifierConfig(config, num_labels)
         /\ model' = Some(ClassifierOn(config'))
    /\ UNCHANGED <<pc, fr, pt_writer>>
    /\ UNCHANGED <<cfg_call, cfg_out, proc, pre_call, pre_out, available, dummy_calls>>

\* A forward call on the classifier constructed last
LifeCall(t) ==
    /\ ~IsNone(model)
    /\ Val(model).class = "TimmForImageClassification"
    /\ \A u \in Threads : pc[u] = "idle"
    /\ ForwardCall(t)

\* A call starts only when no other call is in flight
SeqCall(t) ==
    /\ \A u \in Threads : pc[u] = "idle"
    /\ ForwardCall(t)

ParkedConfig ==
    [hf_hub_id |-> "timm/m", image_size |-> 224, num_labels |-> 1,
     use_return_dict |-> TRUE, problem_type |-> None]

AllIdle == [t \in Threads |-> "idle"]
IdleFrames == [t \in Threads |-> IdleFrame]

(***************************************************************************)
(* Preprocessing pipeline                                                  *)
(***************************************************************************)

\* Longest batch of images tried
MaxBatch == 2

\* PILImageResampling.BILINEAR, the constructor's default resample filter
BILINEAR == 2

\* rescale factors as <<numerator, denominator>>
DefaultRescaleFactor == <<1, 255>>
ZeroFactor == <<0, 1>>

\* IMAGENET_STANDARD_MEAN and IMAGENET_STANDARD_STD ([0.5, 0.5, 0.5]), in thousandths
IMAGENET_STANDARD_MEAN == <<500, 500, 500>>
IMAGENET_STANDARD_STD == <<500, 500, 500>>

DefaultSize == [height |-> 224, width |-> 224]
ShortestEdgeSize == [shortest_edge |-> 8]
HeightOnlySize == [height |-> 8]
SmallSize == [height |-> 2, width |-> 3]

\* The key sets get_size_dict accepts for a dict
ValidSizeKeys ==
    { {"height", "width"}, {"shortest_edge"}, {"shortest_edge", "longest_edge"},
      {"longest_edge"} }

\* get_size_dict on a dict (lines 247, 317, 441): the dict itself when its key set
\* is one of the accepted ones, a ValueError otherwise
get_size_dict_accepts(size) == DOMAIN size \in ValidSizeKeys

\* An image of the input: a 3-D array, or a value that is no image type
ImageKinds == {"ndarray", "str"}
is_valid_image(kind) == kind = "ndarray"

\* valid_images (line 445): every element is of an image type
valid_images(images) == \A i \in 1..Len(images) : is_valid_image(images[i].kind)

RawImage(kind) == [kind |-> kind, ops |-> <<>>]

Batches ==
    UNION { [1..n -> {RawImage(k) : k \in ImageKinds}] : n \in 0..MaxBatch }

\* The constructor's arguments
CtorArgs ==
    [ do_resize : BOOLEAN,
      size : {None, Some(ShortestEdgeSize)},
      resample : {BILINEAR},
      do_rescale : BOOLEAN,
      rescale_factor : {Some(DefaultRescaleFactor), None},
      do_normalize : BOOLEAN,
      image_mean : {None},
      image_std : {None} ]

\* TimmImageProcessor.__init__, lines 233-255
TimmImageProcessor_init(a) ==
    [ do_resize |-> a.do_resize,
      do_rescale |-> a.do_rescale,
      do_normalize |-> a.do_normalize,
      size |-> IF ~IsNone(a.size) THEN Val(a.size) ELSE DefaultSize,
      resample |-> a.resample,
      rescale_factor |-> a.rescale_factor,
      image_mean |-> IF ~IsNone(a.image_mean) THEN Val(a.image_mean) ELSE IMAGENET_STANDARD_MEAN,
      image_std |-> IF ~IsNone(a.image_std) THEN Val(a.image_std) ELSE IMAGENET_STANDARD_STD ]

\* The arguments of a preprocess call: None is the unset default of each option
PreprocessArgs ==
    [ images : Batches,
      do_resize : {None, Some(TRUE), Some(FALSE)},
      size : {None, Some(SmallSize), Some(ShortestEdgeSize), Some(HeightOnlySize)},
      resample : {None, Some(0)},
      do_rescale : {None, Some(TRUE), Some(FALSE)},
      rescale_factor : {None, Some(ZeroFactor)},
      do_normalize : {None, Some(TRUE), Some(FALSE)},
      image_mean : {None, Some(<<0>>)},
      image_std : {None, Some(<<1>>)},
      data_format : {"channels_first", "channels_last"} ]

\* A slip: "arg or default", which drops a False passed for the call
ResolveFlag_or(arg, default) ==
    IF ~IsNone(arg) /\ Val(arg) THEN TRUE ELSE default

\* lines 432-434: x if x is not None else self.x, for the three flags
ResolveFlag(arg, default) ==
    IF ~IsNone(arg) THEN Val(arg) ELSE default

\* lines 435-440: x if x is not None else self.x, for the parameters. The result
\* stays optional: the instance's rescale_factor may itself be None.
ResolveOpt(arg, default) ==
    IF ~IsNone(arg) THEN arg ELSE default

\* lines 432-440: the call's locals after default resolution
ResolveOptions(self, a) ==
    [ do_resize |-> ResolveFlag(a.do_resize, self.do_resize),
      do_rescale |-> ResolveFlag(a.do_rescale, self.do_rescale),
      do_normalize |-> ResolveFlag(a.do_normalize, self.do_normalize),
      resample |-> Val(ResolveOpt(a.resample, Some(self.resample))),
      rescale_factor |-> ResolveOpt(a.rescale_factor, self.rescale_factor),
      image_mean |-> Val(ResolveOpt(a.image_mean, Some(self.image_mean))),
      image_std |-> Val(ResolveOpt(a.image_std, Some(self.image_std))),
      size |-> Val(ResolveOpt(a.size, Some(self.size))) ]

\* A slip: the rescale factor is not checked before the images are converted
Validate_no_factor_check(images, u) ==
    IF ~valid_images(images) THEN "image_type" ELSE "ok"

\* A slip: the rescale factor is required whether or not rescaling is enabled
Validate_factor_always(images, u) ==
    IF ~valid_images(images) THEN "image_type"
    ELSE IF IsNone(u.rescale_factor) THEN "rescale_factor"
    ELSE "ok"

\* lines 443-455: the checks made before any image is touched. size is never
\* None here: it was resolved against self.size and passed get_size_dict.
Validate(images, u) ==
    IF ~valid_images(images) THEN "image_type"
    ELSE IF u.do_rescale /\ IsNone(u.rescale_factor) THEN "rescale_factor"
    ELSE "ok"

Apply(image, op, arg) == [image EXCEPT !.ops = Append(@, [op |-> op, arg |-> arg])]

\* the list comprehensions of lines 458-469: one operation on every image
ApplyAll(images, op, arg) == [i \in 1..Len(images) |-> Apply(images[i], op, arg)]

\* A slip: a size without height and width is resized to the default size
resize_accepts_any(size) == TRUE

\* TimmImageProcessor.resize, lines 317-319: the size is taken when it has both keys
resize_accepts(size) ==
    get_size_dict_accepts(size) /\ "height" \in DOMAIN size /\ "width" \in DOMAIN size

\* TimmImageProcessor.resize, lines 320-324
TimmImageProcessor_resize(image, size, resample) ==
    Apply(image, "resize",
          [height |-> IF "height" \in DOMAIN size THEN size["height"] ELSE DefaultSize.height,
           width |-> IF "width" \in DOMAIN size THEN size["width"] ELSE DefaultSize.width,
           resample |-> resample])

\* A slip: normalize before rescale
Transform_normalize_first(images, u, data_format) ==
    LET n == IF u.do_normalize
             THEN ApplyAll(images, "normalize",
                           [mean |-> u.image_mean, std |-> u.image_std])
             ELSE images
        s == IF u.do_rescale
             THEN ApplyAll(n, "rescale", u.rescale_factor)
             ELSE n
    IN ApplyAll(s, "to_channel_dimension_format", data_format)

\* lines 463-469: rescale, normalize and layout conversion of the resized images
Transform(images, u, data_format) ==
    LET s == IF u.do_rescale
             THEN ApplyAll(images, "rescale", u.rescale_factor)
             ELSE images
        n == IF u.do_normalize
             THEN ApplyAll(s, "normalize",
                           [mean |-> u.image_mean, std |-> u.image_std])
             ELSE s
    IN ApplyAll(n, "to_channel_dimension_format", data_format)

PreResult(raised, where, used, images, data) ==
    [raised |-> raised, where |-> where, used |-> used, images |-> images, data |-> data]

\* TimmImageProcessor.preprocess, lines 432-473: the locals after resolution,
\* the images as the call leaves them, the ValueError raised (and where), and the
\* pixel_values of the BatchFeature returned
TimmImageProcessor_preprocess(self, a) ==
    LET u == ResolveOptions(self, a)
    IN IF ~get_size_dict_accepts(u.size)
       THEN PreResult("ValueError", "get_size_dict", u, a.images, None)
       ELSE LET v == Validate(a.images, u)
            IN IF v # "ok"
               THEN PreResult("ValueError", v, u, a.images, None)
               ELSE LET arrays == ApplyAll(a.images, "to_numpy_array", "none")
                    IN IF u.do_resize /\ Len(arrays) > 0 /\ ~resize_accepts(u.size)
                       THEN PreResult("ValueError", "resize", u, arrays, None)
                       ELSE LET r == IF u.do_resize
                                     THEN [i \in 1..Len(arrays) |->
                                            TimmImageProcessor_resize(arrays[i], u.size, u.resample)]
                                     ELSE arrays
                                out == Transform(r, u, a.data_format)
                            IN PreResult("none", "none", u, out, Some(out))

NoPreResult == [raised |-> "not_called"]

\* preprocess up to the BatchFeature it builds
Preprocess ==
    /\ IsNone(pre_call)
    /\ \E a \in PreprocessArgs :
        /\ pre_call' = Some(a)
        /\ pre_out' = TimmImageProcessor_preprocess(proc, a)
    /\ UNCHANGED proc
    /\ UNCHANGED <<cfg_call, cfg_out, config, pc, fr, pt_writer, available, dummy_calls, model>>

\* line 473 (or the raise): the call ends and its locals are gone
PreprocessEnd ==
    /\ ~IsNone(pre_call)
    /\ pre_call' = None
    /\ pre_out' = NoPreResult
    /\ UNCHANGED proc
    /\ UNCHANGED <<cfg_call, cfg_out, config, pc, fr, pt_writer, available, dummy_calls, model>>

ParkedProc == TimmImageProcessor_init(
    [do_resize |-> TRUE, size |-> None, resample |-> BILINEAR, do_rescale |-> TRUE,
     rescale_factor |-> Some(DefaultRescaleFactor), do_normalize |-> TRUE,
     image_mean |-> None, image_std |-> None])

(***************************************************************************)
(* Placeholder classes                                                     *)
(***************************************************************************)

\* Longest series of calls on the placeholder classes tried
MaxDummyCalls == 2

Backends == {"openvino", "diffusers"}

DummyClasses ==
    { "OVStableDiffusionPipeline", "OVStableDiffusionImg2ImgPipeline",
      "OVStableDiffusionInpaintPipeline", "OVStableDiffusionXLPipeline",
      "OVStableDiffusionXLImg2ImgPipeline" }

\* _backends of each class (lines 19, 30, 41, 52, 63)
ClassBackends(cls) ==
    CASE cls = "OVStableDiffusionPipeline" -> <<"openvino", "diffusers">>
      [] cls = "OVStableDiffusionImg2ImgPipeline" -> <<"openvino", "diffusers">>
      [] cls = "OVStableDiffusionInpaintPipeline" -> <<"openvino", "diffusers">>
      [] cls = "OVStableDiffusionXLPipeline" -> <<"openvino", "diffusers">>
      [] cls = "OVStableDiffusionXLImg2ImgPipeline" -> <<"openvino", "diffusers">>

\* A slip: one constructor checks for openvino only
InitBackends_openvino_only(cls) ==
    IF cls = "OVStableDiffusionInpaintPipeline" THEN <<"openvino">>
    ELSE <<"openvino", "diffusers">>

\* The list each __init__ hands to requires_backends (lines 22, 33, 44, 55, 66)
InitBackends(cls) ==
    CASE cls = "OVStableDiffusionPipeline" -> <<"openvino", "diffusers">>
      [] cls = "OVStableDiffusionImg2ImgPipeline" -> <<"openvino", "diffusers">>
      [] cls = "OVStableDiffusionInpaintPipeline" -> <<"openvino", "diffusers">>
      [] cls = "OVStableDiffusionXLPipeline" -> <<"openvino", "diffusers">>
      [] cls = "OVStableDiffusionXLImg2ImgPipeline" -> <<"openvino", "diffusers">>

\* The list each from_pretrained hands to requires_backends (lines 26, 37, 48, 59, 70)
FromPretrainedBackends(cls) ==
    CASE cls = "OVStableDiffusionPipeline" -> <<"openvino", "diffusers">>
      [] cls = "OVStableDiffusionImg2ImgPipeline" -> <<"openvino", "diffusers">>
      [] cls = "OVStableDiffusionInpaintPipeline" -> <<"openvino", "diffusers">>
      [] cls = "OVStableDiffusionXLPipeline" -> <<"openvino", "diffusers">>
      [] cls = "OVStableDiffusionXLImg2ImgPipeline" -> <<"openvino", "diffusers">>

SeqRange(s) == {s[i] : i \in 1..Len(s)}

\* requires_backends of .import_utils: the dependencies of the list that are not
\* installed; it raises ImportError when there is one and returns otherwise
requires_backends(backends, installed) == SeqRange(backends) \ installed

\* One entry point: its only statement is the requires_backends call. When that
\* raises, the exception leaves __init__ and no instance is handed to the
\* caller; from_pretrained never returns an object.
DummyEntry(cls, entry, installed) ==
    LET checked == IF entry = "__init__" THEN InitBackends(cls)
                   ELSE FromPretrainedBackends(cls)
        missing == requires_backends(checked, installed)
    IN [ cls |-> cls, entry |-> entry, checked |-> checked,
         statements |-> <<"requires_backends">>,
         raised |-> IF missing # {} THEN "ImportError" ELSE "none",
         missing |-> missing,
         object |-> (entry = "__init__" /\ missing = {}) ]

\* OVStableDiffusion*Pipeline(...)
DummyConstruct ==
    /\ Len(dummy_calls) < MaxDummyCalls
    /\ \E cls \in DummyClasses :
         dummy_calls' = Append(dummy_calls, DummyEntry(cls, "__init__", available))
    /\ UNCHANGED available
    /\ UNCHANGED <<cfg_call, cfg_out, config, pc, fr, pt_writer, proc, pre_call, pre_out, model>>

\* OVStableDiffusion*Pipeline.from_pretrained(...)
DummyFromPretrained ==
    /\ Len(dummy_calls) < MaxDummyCalls
    /\ \E cls \in DummyClasses :
         dummy_calls' = Append(dummy_calls, DummyEntry(cls, "from_pretrained", available))
    /\ UNCHANGED available
    /\ UNCHANGED <<cfg_call, cfg_out, config, pc, fr, pt_writer, proc, pre_call, pre_out, model>>

vars == <<cfg_call, cfg_out, config, pc, fr, pt_writer, proc, pre_call, pre_out,
          available, dummy_calls, model>>

(***************************************************************************)
(* Specifications                                                          *)
(***************************************************************************)

\* The config translator alone: the caller's arguments are drawn at the start
\* and the call is then made once.
InitConfig ==
    /\ cfg_call \in ConfigArgs
    /\ cfg_out = NotCalled
    /\ config = ParkedConfig
    /\ pc = AllIdle
    /\ fr = IdleFrames
    /\ pt_writer = "none"
    /\ proc = ParkedProc
    /\ pre_call = None
    /\ pre_out = NoPreResult
    /\ available = {}
    /\ dummy_calls = <<>>
    /\ model = None

SpecConfig == InitConfig /\ [][ConfigFromPretrained]_vars

\* The classification model on a config with any num_labels and any (or no)
\* problem_type set by its owner
InitForward ==
    /\ cfg_call = None
    /\ cfg_out = NotCalled
    /\ config \in Configs
    /\ pc = AllIdle
    /\ fr = IdleFrames
    /\ pt_writer = "none"
    /\ proc = ParkedProc
    /\ pre_call = None
    /\ pre_out = NoPreResult
    /\ available = {}
    /\ dummy_calls = <<>>
    /\ model = Some(ClassifierOn(config))

SeqNext ==
    \E t \in Threads :
        \/ SeqCall(t)
        \/ ForwardCheck(t)
        \/ ForwardInfer(t)
        \/ ForwardRegression(t)
        \/ ForwardSingleLabel(t)
        \/ ForwardMultiLabel(t)
        \/ ForwardReturn(t)

\* Forward calls one after the other
SpecSeq == InitForward /\ [][SeqNext]_vars

ConcNext ==
    \E t \in Threads :
        \/ ForwardCall(t)
        \/ ForwardCheck(t)
        \/ ForwardInfer(t)
        \/ ForwardRegression(t)
        \/ ForwardSingleLabel(t)
        \/ ForwardMultiLabel(t)
        \/ ForwardReturn(t)

\* Forward calls of two callers interleaved statement by statement
SpecConc == InitForward /\ [][ConcNext]_vars

\* A config that models are constructed on, called and constructed on again
InitLife ==
    /\ cfg_call = None
    /\ cfg_out = NotCalled
    /\ config \in Configs
    /\ pc = AllIdle
    /\ fr = IdleFrames
    /\ pt_writer = "none"
    /\ proc = ParkedProc
    /\ pre_call = None
    /\ pre_out = NoPreResult
    /\ available = {}
    /\ dummy_calls = <<>>
    /\ model = None

LifeNext ==
    \/ TimmModel_init
    \/ TimmForImageClassification_init
    \/ \E t \in Threads :
        \/ LifeCall(t)
        \/ ForwardCheck(t)
        \/ ForwardInfer(t)
        \/ ForwardRegression(t)
        \/ ForwardSingleLabel(t)
        \/ ForwardMultiLabel(t)
        \/ ForwardReturn(t)

\* Constructions and forward calls one after the other on one config
SpecLife == InitLife /\ [][LifeNext]_vars

\* A processor built with any constructor arguments, called again and again
InitPre ==
    /\ cfg_call = None
    /\ cfg_out = NotCalled
    /\ config = ParkedConfig
    /\ pc = AllIdle
    /\ fr = IdleFrames
    /\ pt_writer = "none"
    /\ proc \in {TimmImageProcessor_init(a) : a \in CtorArgs}
    /\ pre_call = None
    /\ pre_out = NoPreResult
    /\ available = {}
    /\ dummy_calls = <<>>
    /\ model = None

PreNext == Preprocess \/ PreprocessEnd

SpecPre == InitPre /\ [][PreNext]_vars

\* The placeholder classes with any of the two dependencies installed
InitDummy ==
    /\ cfg_call = None
    /\ cfg_out = NotCalled
    /\ config = ParkedConfig
    /\ pc = AllIdle
    /\ fr = IdleFrames
    /\ pt_writer = "none"
    /\ proc = ParkedProc
    /\ pre_call = None
    /\ pre_out = NoPreResult
    /\ available \in SUBSET Backends
    /\ dummy_calls = <<>>
    /\ model = None

DummyNext == DummyConstruct \/ DummyFromPretrained

SpecDummy == InitDummy /\ [][DummyNext]_vars

(***************************************************************************)
(* Claims about the loss selector                                          *)
(***************************************************************************)

\* The call of t found problem_type unset and has written its inference
HasInferred(t) == ~IsNone(fr[t].inferred)

\* The inference rule with every integer dtype counted as integral
RuleAnyInteger(num_labels, dtype) ==
    IF num_labels = 1 THEN "regression"
    ELSE IF num_labels > 1 /\ dtype \in {"long", "int", "short"}
         THEN "single_label_classification"
    ELSE "multi_label_classification"

\* The inference rule with the 64-bit and 32-bit integer dtypes only
RuleLongOrInt(num_labels, dtype) ==
    IF num_labels = 1 THEN "regression"
    ELSE IF num_labels > 1 /\ dtype \in {"long", "int"}
         THEN "single_label_classification"
    ELSE "multi_label_classification"

LossOfProblemType(p, num_labels) ==
    IF IsNone(p) THEN "none"
    ELSE IF Val(p) = "regression"
         THEN (IF num_labels = 1 THEN "MSELoss_squeezed" ELSE "MSELoss")
    ELSE IF Val(p) = "single_label_classification" THEN "CrossEntropyLoss"
    ELSE "BCEWithLogitsLoss"

\* The call of t has returned a value (it did not raise)
Returned(t) ==
    pc[t] = "idle" /\ fr[t].result.kind \in {"logits", "ImageClassifierOutput"}

\* C3 as stated: forward returns a result holding loss and logits; with labels
\* given, whatever return_dict is, the result carries the loss of the config's
\* problem type; with labels absent the returned loss is empty.
C3_LossAndLogitsReturned ==
    \A t \in Threads :
        Returned(t) =>
            /\ fr[t].result.kind = "ImageClassifierOutput"
            /\ IsNone(fr[t].labels) => fr[t].result.loss = "none"
            /\ ~IsNone(fr[t].labels) =>
                 fr[t].result.loss = LossOfProblemType(config.problem_type, config.num_labels)

\* The problem type a computed loss belongs to
ProblemTypeOfLoss(loss) ==
    IF loss \in {"MSELoss", "MSELoss_squeezed"} THEN "regression"
    ELSE IF loss = "CrossEntropyLoss" THEN "single_label_classification"
    ELSE "multi_label_classification"

\* The call of t computed its loss under another problem type than the one it
\* inferred from its own labels
ForeignLoss(t) ==
    /\ HasInferred(t)
    /\ fr[t].loss # "none"
    /\ ProblemTypeOfLoss(fr[t].loss) # Val(fr[t].inferred)

C11_LossFromStored ==
    \A t \in Threads :
        (Returned(t) /\ ~IsNone(fr[t].labels) /\ ~HasInferred(t)) =>
            /\ ~IsNone(config.problem_type)
            /\ fr[t].loss = LossOfProblemType(config.problem_type, config.num_labels)

\* problem_type changes only from unset, and only in the inference of the one
\* running call, which has labels
C11_Step ==
    (config'.problem_type # config.problem_type) =>
        /\ IsNone(config.problem_type)
        /\ \E t \in Threads :
              /\ pc[t] = "infer"
              /\ ~IsNone(fr[t].labels)
              /\ \A u \in Threads \ {t} : pc[u] = "idle"

FrozenFields == DOMAIN config \ {"problem_type"}

\* C12 as stated: a config is immutable after construction except for
\* problem_type: no model construction (TimmModel, TimmForImageClassification
\* with or without a num_labels argument) and no forward call changes any other
\* field of the config passed in, such as num_labels, image_size or hf_hub_id.
C12_OnlyProblemTypeChanges ==
    [][\A f \in FrozenFields : config'[f] = config[f]]_vars

(***************************************************************************)
(* Claims about the preprocessing pipeline                                 *)
(***************************************************************************)

\* A preprocess call has run; PreArgs is what it was called with
PreCalled == ~IsNone(pre_call)
PreArgs == Val(pre_call)

\* The options as the claims resolve them: the call's value when one was passed,
\* the instance's otherwise
FlagInEffect(arg, default) == IF arg = None THEN default ELSE (arg = Some(TRUE))
DoResize == FlagInEffect(PreArgs.do_resize, proc.do_resize)
DoRescale == FlagInEffect(PreArgs.do_rescale, proc.do_rescale)
DoNormalize == FlagInEffect(PreArgs.do_normalize, proc.do_normalize)
SizeInEffect == IF PreArgs.size = None THEN proc.size ELSE PreArgs.size[1]
FactorInEffect ==
    IF PreArgs.rescale_factor = None THEN proc.rescale_factor ELSE PreArgs.rescale_factor

StageNames(image) == [i \in 1..Len(image.ops) |-> image.ops[i].op]
StageArgs(image, name) ==
    {image.ops[i].arg : i \in {j \in 1..Len(image.ops) : image.ops[j].op = name}}

ExpectedStages ==
    <<"to_numpy_array">>
    \o (IF DoResize THEN <<"resize">> ELSE <<>>)
    \o (IF DoRescale THEN <<"rescale">> ELSE <<>>)
    \o (IF DoNormalize THEN <<"normalize">> ELSE <<>>)
    \o <<"to_channel_dimension_format">>

\* C4: a preprocess call that returns a batch has applied to every image exactly
\* the enabled stages, in the order resize, rescale, normalize, and last the
\* conversion to the requested channel layout, for every combination of the
\* three flags; no image is dropped or added.
C4_StagesInOrder ==
    (PreCalled /\ pre_out.raised = "none") =>
        LET out == Val(pre_out.data)
        IN /\ Len(out) = Len(PreArgs.images)
           /\ \A i \in 1..Len(out) :
                /\ StageNames(out[i]) = ExpectedStages
                /\ out[i].ops[Len(out[i].ops)].arg = PreArgs.data_format

\* A batch of two went through resize and normalize with rescale switched off
C4_Witness ==
    /\ PreCalled
    /\ pre_out.raised = "none"
    /\ Len(Val(pre_out.data)) = 2
    /\ DoResize /\ ~DoRescale /\ DoNormalize
    /\ PreArgs.data_format = "channels_last"

\* The locals of the call hold, for each option, the call's value when one was
\* passed and the instance's value otherwise
C5_Resolved ==
    PreCalled =>
        /\ pre_out.used.do_resize = DoResize
        /\ pre_out.used.do_rescale = DoRescale
        /\ pre_out.used.do_normalize = DoNormalize
        /\ pre_out.used.size = SizeInEffect
        /\ pre_out.used.resample =
             (IF PreArgs.resample = None THEN proc.resample ELSE PreArgs.resample[1])
        /\ pre_out.used.rescale_factor = FactorInEffect
        /\ pre_out.used.image_mean =
             (IF PreArgs.image_mean = None THEN proc.image_mean ELSE PreArgs.image_mean[1])
        /\ pre_out.used.image_std =
             (IF PreArgs.image_std = None THEN proc.image_std ELSE PreArgs.image_std[1])

\* The stages that ran were given the resolved values
C5_Applied ==
    (PreCalled /\ pre_out.raised = "none") =>
        \A i \in 1..Len(Val(pre_out.data)) :
            LET im == Val(pre_out.data)[i]
            IN /\ \A x \in StageArgs(im, "resize") :
                    /\ x.height = SizeInEffect.height
                    /\ x.width = SizeInEffect.width
                    /\ x.resample = pre_out.used.resample
               /\ \A x \in StageArgs(im, "rescale") : x = FactorInEffect
               /\ \A x \in StageArgs(im, "normalize") :
                    /\ x.mean = pre_out.used.image_mean
                    /\ x.std = pre_out.used.image_std

\* C5: preprocess resolves each of do_resize, size, resample, do_rescale,
\* rescale_factor, do_normalize, image_mean and image_std on its own: the value
\* passed for the call (a falsy one included) is the one used, the instance's
\* value is used only when the call leaves the option unset, and no call
\* changes the instance.
C5_OptionResolution ==
    /\ [](C5_Resolved /\ C5_Applied)
    /\ [][proc' = proc]_vars

\* Falsy values passed for the call win over truthy instance values, and an
\* unset option falls back to the instance
C5_Witness ==
    /\ PreCalled
    /\ pre_out.raised = "none"
    /\ Len(Val(pre_out.data)) > 0
    /\ PreArgs.do_normalize = Some(FALSE) /\ proc.do_normalize
    /\ PreArgs.do_resize = None /\ proc.do_resize
    /\ DoRescale /\ PreArgs.rescale_factor = Some(ZeroFactor)
    /\ proc.rescale_factor = Some(DefaultRescaleFactor)
    /\ PreArgs.resample = Some(0)
    /\ PreArgs.size = None

LacksHeightOrWidth(size) == ~({"height", "width"} \subseteq DOMAIN size)

\* C8 as stated: a resolved size without both keys height and width makes the
\* call fail with a validation error, for every value of do_resize.
C8_SizeAlwaysValidated ==
    (PreCalled /\ LacksHeightOrWidth(SizeInEffect)) => pre_out.raised = "ValueError"

\* C8 amended: a resolved size without both keys height and width makes the call
\* fail with a validation error whenever do_resize is in effect and the batch
\* holds at least one image; it is then never replaced by a default.
C8_SizeValidatedWhenResizing ==
    (PreCalled /\ LacksHeightOrWidth(SizeInEffect) /\ DoResize /\ Len(PreArgs.images) > 0) =>
        /\ pre_out.raised = "ValueError"
        /\ IsNone(pre_out.data)

\* The instance's shortest_edge size, not overridden, is rejected by resize
C8_Witness ==
    /\ PreCalled
    /\ PreArgs.size = None
    /\ proc.size = ShortestEdgeSize
    /\ DoResize
    /\ pre_out.raised = "ValueError"
    /\ pre_out.where = "resize"

\* C9: when an element of the batch is no image type, or do_rescale is in effect
\* with no rescale_factor on the call or the instance, preprocess raises the
\* validation error before any image is converted, resized, rescaled or
\* normalized, and returns no batch.
C9_RejectedBeforeProcessing ==
    (PreCalled /\ ( (\E i \in 1..Len(PreArgs.images) : PreArgs.images[i].kind = "str")
                    \/ (DoRescale /\ FactorInEffect = None) )) =>
        /\ pre_out.raised = "ValueError"
        /\ IsNone(pre_out.data)
        /\ \A i \in 1..Len(pre_out.images) : pre_out.images[i].ops = <<>>
        /\ Len(pre_out.images) = Len(PreArgs.images)

\* A batch of a valid image followed by a non-image, with rescaling in effect
\* and no rescale factor, was rejected untouched
C9_Witness ==
    /\ PreCalled
    /\ pre_out.raised = "ValueError"
    /\ Len(PreArgs.images) = 2
    /\ PreArgs.images[1].kind = "ndarray"
    /\ PreArgs.images[2].kind = "str"
    /\ pre_out.where = "image_type"
    /\ DoRescale /\ FactorInEffect = None

\* What a caller sees of a preprocess call: the error and where it was raised,
\* or the pixel_values returned
Outcome(o) == [raised |-> o.raised, where |-> o.where, data |-> o.data]

\* The values a call and an instance can give each parameter
MeanArgs == {a.image_mean : a \in PreprocessArgs}
StdArgs == {a.image_std : a \in PreprocessArgs}
FactorArgs == {a.rescale_factor : a \in PreprocessArgs}
SizeArgs == {a.size : a \in PreprocessArgs}
ResampleArgs == {a.resample : a \in PreprocessArgs}
InstanceFactors == {TimmImageProcessor_init(a).rescale_factor : a \in CtorArgs}
InstanceSizes == {TimmImageProcessor_init(a).size : a \in CtorArgs}

\* The same call with other parameters of one stage, on the call and the instance
WithNormalize(m, s) ==
    TimmImageProcessor_preprocess(proc, [PreArgs EXCEPT !.image_mean = m, !.image_std = s])
WithRescale(pf, f) ==
    TimmImageProcessor_preprocess([proc EXCEPT !.rescale_factor = pf],
                                  [PreArgs EXCEPT !.rescale_factor = f])
WithResize(ps, sz, r) ==
    TimmImageProcessor_preprocess([proc EXCEPT !.size = ps],
                                  [PreArgs EXCEPT !.size = sz, !.resample = r])

\* With do_normalize off the outcome is the same for every image_mean and
\* image_std; with do_rescale off it is the same for every rescale_factor, an
\* unset one included
C13_NormalizeAndRescaleIgnored ==
    /\ (PreCalled /\ ~DoNormalize) =>
          \A m \in MeanArgs, s \in StdArgs :
              Outcome(WithNormalize(m, s)) = Outcome(pre_out)
    /\ (PreCalled /\ ~DoRescale) =>
          \A pf \in InstanceFactors, f \in FactorArgs :
              Outcome(WithRescale(pf, f)) = Outcome(pre_out)

\* C13 as stated: a stage whose flag is false is skipped entirely and its
\* parameters are never read or validated: the outcome is the same for every
\* image_mean and image_std with do_normalize off, for every rescale_factor
\* (unset included) with do_rescale off, and for EVERY size and resample with
\* do_resize off.
C13_DisabledStageIgnored ==
    /\ C13_NormalizeAndRescaleIgnored
    /\ (PreCalled /\ ~DoResize) =>
          \A ps \in InstanceSizes, sz \in SizeArgs, r \in ResampleArgs :
              Outcome(WithResize(ps, sz, r)) = Outcome(pre_out)

\* C13 amended: as C13 for normalize and rescale; with do_resize off the outcome
\* is the same for every resample and every size whose keys get_size_dict
\* accepts, a size that resize would reject included, while a size whose keys
\* get_size_dict rejects makes the call fail although nothing is resized.
C13_DisabledStageIgnoredUpToSizeKeys ==
    /\ C13_NormalizeAndRescaleIgnored
    /\ (PreCalled /\ ~DoResize) =>
          \A ps \in InstanceSizes, sz \in SizeArgs, r \in ResampleArgs :
              LET other == IF sz = None THEN ps ELSE Val(sz)
              IN IF ~get_size_dict_accepts(other)
                 THEN Outcome(WithResize(ps, sz, r)).raised = "ValueError"
                 ELSE get_size_dict_accepts(SizeInEffect) =>
                        Outcome(WithResize(ps, sz, r)) = Outcome(pre_out)

\* A call with all three flags off returned a batch although its size has no
\* height and width, no rescale factor is set on the call or the instance, and
\* a mean was passed
C13_Witness ==
    /\ PreCalled
    /\ ~DoResize /\ ~DoRescale /\ ~DoNormalize
    /\ SizeInEffect = ShortestEdgeSize
    /\ FactorInEffect = None
    /\ PreArgs.image_mean # None
    /\ Len(PreArgs.images) > 0
    /\ pre_out.raised = "none"
    /\ ~IsNone(pre_out.data)

(***************************************************************************)
(* Claims about the placeholder classes                                    *)
(***************************************************************************)

\* C6: on each of the five placeholder classes the constructor and
\* from_pretrained do nothing but the backend check; the check names exactly
\* "openvino" and "diffusers", the same list as the class's _backends; and when
\* one of the two is missing the entry point fails at once: ImportError, no
\* object, no other statement.
C6_OnlyTheBackendCheck ==
    \A i \in 1..Len(dummy_calls) :
        LET e == dummy_calls[i]
        IN /\ e.statements = <<"requires_backends">>
           /\ e.checked = <<"openvino", "diffusers">>
           /\ e.checked = ClassBackends(e.cls)
           /\ (~(Backends \subseteq available)) =>
                /\ e.raised = "ImportError"
                /\ ~e.object
                /\ e.missing = Backends \ available

\* With diffusers missing, a constructor and a from_pretrained both failed
C6_Witness ==
    /\ available = {"openvino"}
    /\ Len(dummy_calls) = 2
    /\ dummy_calls[1].entry = "__init__"
    /\ dummy_calls[1].cls = "OVStableDiffusionInpaintPipeline"
    /\ dummy_calls[2].entry = "from_pretrained"
    /\ dummy_calls[1].raised = "ImportError"
    /\ dummy_calls[2].raised = "ImportError"

=============================================================================
